---- MODULE Spec2Model ----
(***************************************************************************)
(* Model of the app-functions SDK core: the message-bus trigger            *)
(* (internal/trigger/messagebus/messaging.go), the MQTT export sender      *)
(* (transforms, mqtt sender), the example stage printXMLToConsole          *)
(* (examples/simple-filter-xml/main.go), and the pipeline runtime and      *)
(* execution context those call (runtime.GolangRuntime, appcontext.Context,*)
(* modelled after the design document, sections 4.1 and 4.3).              *)
(***************************************************************************)
EXTENDS Integers, Sequences, FiniteSets, TLC

(* ---------------------------- bounds ---------------------------------- *)
MaxStages == 2
MaxArrivals == 2
MaxBusErrors == 1
MaxSends == 3
MaxPublishes == 2

(* ---------------------------- values ---------------------------------- *)
\* Go values that travel between stages: nil, an Event, a string, a []byte,
\* an error.  t is the dynamic type, v the content.
Nil == [t |-> "nil", v |-> "-"]
Event(e) == [t |-> "event", v |-> e]
Str(s) == [t |-> "string", v |-> s]
Bytes(s) == [t |-> "bytes", v |-> s]
Err(m) == [t |-> "error", v |-> m]

CorrIds == {"c1", "c2"}
ForgedId == "forged"
GoodPayloads == {"evA"}
BadPayloads == {"bad"}
Payloads == GoodPayloads \cup BadPayloads
ContentTypeJSON == "application/json"

\* types.MessageEnvelope as delivered by the bus
Envelopes == [CorrelationID : CorrIds, Payload : Payloads]

Kinds == {"user", "xml", "print", "mqtt"}
Pipelines == UNION {[1..n -> Kinds] : n \in 0..MaxStages}

VARIABLES
    pipeline,       \* gr.Transforms: the configured stage sequence
    init,           \* Initialize: "new", "failed" (returned err), "live" (returned nil)
    subscribed,     \* whether client.Subscribe established the subscription
    messages,       \* arrivals the bus holds for trigger.topics[0].Messages, in delivery order
    delivered,      \* number of arrivals delivered so far
    pc,             \* worker position: "off", "select", "decode", "stages", "post", "panicked"
    msgs,           \* the arrival being serviced: [seq, env] or NoMsg
    edgexContext,   \* the appcontext.Context of the current run
    idx,            \* index of the next stage to invoke
    result,         \* value handed to the next stage
    connected,      \* sender.client.IsConnected()
    calls,          \* history: the stage invocations of the current run
    log,            \* history: Error-level log entries of the current run
    busLogged,      \* history: number of bus errors logged by the worker
    served,         \* history: seq numbers of arrivals in the order dequeued
    done,           \* history: summary of the arrival whose servicing finished last
    send,           \* per caller: the MQTTSend call it is in, step by step
    sends,          \* number of MQTTSend calls started directly by the callers
    connectFails,   \* number of Connect attempts of those calls that failed so far
    ctor            \* a NewMQTTSender call: its arguments and, once made, its result

senderVars == <<send, sends, connectFails>>
triggerVars == <<pipeline, init, subscribed, messages, delivered, pc, msgs,
                 edgexContext, idx, result, calls, log, busLogged, served, done>>
vars == <<pipeline, init, subscribed, messages, delivered, pc, msgs,
          edgexContext, idx, result, connected, calls, log, busLogged, served, done,
          send, sends, connectFails, ctor>>

NoMsg == [seq |-> 0, env |-> [CorrelationID |-> "-", Payload |-> "-"]]
NoCtx == [CorrelationID |-> "-", OutputData |-> Nil]
NoSummary ==
    [seq |-> 0, corr |-> "-", decoded |-> FALSE, output |-> Nil, envs |-> <<>>,
     pubErr |-> FALSE]

(* ----------------------- appcontext.Context --------------------------- *)
\* Complete(payload): sets the output slot, nothing else.
Complete_FirstWins(ctx, payload) ==
    IF ctx.OutputData = Nil THEN [ctx EXCEPT !.OutputData = payload] ELSE ctx
Complete(ctx, payload) == [ctx EXCEPT !.OutputData = payload]

\* []byte(s) for a string value s
ToBytes(val) == Bytes(val.v)

(* ------------------------------ stages -------------------------------- *)
\* What one stage invocation did.  panic: the call panicked; ctx, connected:
\* the context and the client state it left; completes: payloads passed to
\* Complete, in order; connects, publishes, marks: attempts made by an
\* export sender; errs: Error entries the stage itself logged.
Outcome(panic, cont, res, ctx, conn, completes, connects, publishes, marks, errs) ==
    [panic |-> panic, cont |-> cont, result |-> res, ctx |-> ctx, connected |-> conn,
     completes |-> completes, connects |-> connects, publishes |-> publishes,
     marks |-> marks, errs |-> errs]

\* printXMLToConsole of the example
printXMLToConsole(ctx, params, conn) ==
    IF Len(params) < 1
    THEN Outcome(FALSE, FALSE, Nil, ctx, conn, <<>>, 0, 0, 0, <<>>)
    ELSE IF params[1].t # "string"
    THEN Outcome(TRUE, FALSE, Nil, ctx, conn, <<>>, 0, 0, 0, <<>>)
    ELSE Outcome(FALSE, FALSE, Nil, Complete(ctx, ToBytes(params[1])), conn,
                 <<ToBytes(params[1])>>, 0, 0, 0, <<>>)

\* MQTTSender.MQTTSend; connOk, pubOk, markOk are the broker's and the
\* store's answers to Connect, Publish and MarkAsPushed.
MQTTSend(ctx, params, conn, connOk, pubOk, markOk) ==
    IF Len(params) < 1
    THEN Outcome(FALSE, FALSE, Err("No Data Received"), ctx, conn, <<>>, 0, 0, 0, <<>>)
    ELSE IF ~conn /\ ~connOk
    THEN Outcome(FALSE, FALSE, Err("Could not connect to mqtt server"), ctx, FALSE,
                 <<>>, 1, 0, 0, <<>>)
    ELSE LET c == IF conn THEN 0 ELSE 1 IN
         IF params[1].t = "string"
         THEN IF ~pubOk
              THEN Outcome(FALSE, FALSE, Err("publish failed"), ctx, TRUE, <<>>, c, 1, 0, <<>>)
              ELSE Outcome(FALSE, TRUE, Nil, ctx, TRUE, <<>>, c, 1, 1,
                           IF markOk THEN <<>> ELSE <<"mark">>)
         ELSE Outcome(FALSE, FALSE, Err("Unexpected type received"), ctx, TRUE,
                      <<>>, c, 0, 0, <<>>)

\* XMLTransform: an Event becomes its XML string, anything else is an error.
XMLTransform(ctx, params, conn) ==
    IF Len(params) < 1
    THEN Outcome(FALSE, FALSE, Err("No Event Received"), ctx, conn, <<>>, 0, 0, 0, <<>>)
    ELSE IF params[1].t = "event"
    THEN Outcome(FALSE, TRUE, Str(params[1].v), ctx, conn, <<>>, 0, 0, 0, <<>>)
    ELSE Outcome(FALSE, FALSE, Err("Unexpected type received"), ctx, conn, <<>>, 0, 0, 0, <<>>)

\* An application-written stage: it holds the context by reference, so it
\* may call Complete with a payload of its own (comp), may assign the
\* exported CorrelationID field, and returns continue with its input, or
\* stops with or without an error.
UserPayloads == {"u1", "u2"}
UserCompletes == {"none"} \cup UserPayloads
UserReturns == {"go", "stop", "fail"}
UserStage(ctx, params, conn, comp, doRewrite, ret) ==
    LET c1 == IF doRewrite THEN [ctx EXCEPT !.CorrelationID = ForgedId] ELSE ctx
        c2 == IF comp # "none" THEN Complete(c1, Bytes(comp)) ELSE c1
        val == IF Len(params) < 1 THEN Nil ELSE params[1]
    IN Outcome(FALSE, ret = "go",
               IF ret = "go" THEN val ELSE IF ret = "fail" THEN Err("user") ELSE Nil,
               c2, conn, IF comp # "none" THEN <<Bytes(comp)>> ELSE <<>>, 0, 0, 0, <<>>)

(* ------------------------ runtime.GolangRuntime ----------------------- *)
\* ProcessEvent decodes the envelope's payload into an Event or fails.
DecodeOk(env) == env.Payload \in GoodPayloads
Decode(env) == IF DecodeOk(env) THEN Event(env.Payload) ELSE Err("decode")

\* The runtime goes on to the next stage only on continue = true,
ContinuePipeline_Always(o) == TRUE
ContinuePipeline(o) == o.cont
\* hands the stage's return value to the next stage,
NextInput_SameInput(o) == result
NextInput(o) == o.result
\* and logs the returned value of a stopping stage when it is an error.
LogsStageError_AnyStop(o) == ~o.cont
LogsStageError_Never(o) == FALSE
LogsStageError(o) == ~o.cont /\ o.result.t = "error"

(* ------------------------- messagebus.Trigger ------------------------- *)
\* case msgs := <-trigger.topics[0].Messages
NextMessage_Newest(q) == q[Len(q)]
NextMessage(q) == Head(q)

\* edgexContext := &appcontext.Context{..., CorrelationID: msgs.CorrelationID}
NewContext_KeepsOutput(m) == [CorrelationID |-> m.env.CorrelationID, OutputData |-> done.output]
NewContext(m) == [CorrelationID |-> m.env.CorrelationID, OutputData |-> Nil]

\* if edgexContext.OutputData != nil
OutputIsSet_Always(ctx) == TRUE
OutputIsSet(ctx) == ctx.OutputData # Nil

\* outputEnvelope := types.MessageEnvelope{...}
OutputEnvelope_Inbound(ctx, m) ==
    [CorrelationID |-> ctx.CorrelationID, Payload |-> Bytes(m.env.Payload),
     ContentType |-> ContentTypeJSON]
OutputEnvelope(ctx, m) ==
    [CorrelationID |-> ctx.CorrelationID, Payload |-> ctx.OutputData,
     ContentType |-> ContentTypeJSON]

(* --------------------------- NewMQTTSender ---------------------------- *)
\* Strings are sequences of characters.
Upper == <<"A", "B", "C", "D", "E", "F", "G", "H", "I", "J", "K", "L", "M",
           "N", "O", "P", "Q", "R", "S", "T", "U", "V", "W", "X", "Y", "Z">>
Lower == <<"a", "b", "c", "d", "e", "f", "g", "h", "i", "j", "k", "l", "m",
           "n", "o", "p", "q", "r", "s", "t", "u", "v", "w", "x", "y", "z">>

\* strings.ToLower
ToLowerChar(ch) ==
    IF \E i \in 1..Len(Upper) : Upper[i] = ch
    THEN Lower[CHOOSE i \in 1..Len(Upper) : Upper[i] = ch]
    ELSE ch
ToLower_Identity(str) == str
ToLower(str) == [i \in 1..Len(str) |-> ToLowerChar(str[i])]

\* strconv.Itoa, for the ports in use (non-negative)
Digits == <<"0", "1", "2", "3", "4", "5", "6", "7", "8", "9">>
RECURSIVE Itoa(_)
Itoa(n) == IF n < 10 THEN <<Digits[n + 1]>> ELSE Itoa(n \div 10) \o <<Digits[(n % 10) + 1]>>

\* protocol == "tcps" || protocol == "ssl" || protocol == "tls"
IsTLS(protocol) ==
    protocol \in {<<"t", "c", "p", "s">>, <<"s", "s", "l">>, <<"t", "l", "s">>}

\* NewMqttConfig
NewMqttConfig == [qos |-> 0, retain |-> FALSE, autoreconnect |-> FALSE]

\* A method declared on the value type (func (mqttConfig MqttConfig) ...)
\* assigns to its own copy of the receiver; the caller's value stays as it was.
ValueReceiver(caller, copy) == caller
SetRetain(mqttConfig, retain) ==
    ValueReceiver(mqttConfig, [mqttConfig EXCEPT !.retain = retain])
SetQos(mqttConfig, qos) ==
    ValueReceiver(mqttConfig, [mqttConfig EXCEPT !.qos = qos])
SetAutoreconnect(mqttConfig, reconnect) ==
    ValueReceiver(mqttConfig, [mqttConfig EXCEPT !.autoreconnect = reconnect])

QosLevels == {0, 1, 2}
Setters == {"SetQos", "SetRetain", "SetAutoreconnect"}
\* what the application asked the setters for, and which setters it called
NoAsk == [qos |-> 0, retain |-> FALSE, autoreconnect |-> FALSE, called |-> {}]

NilSender == [nil |-> TRUE]

\* NewMQTTSender(logging, addr, certFile, key, config); certOk is whether
\* tls.LoadX509KeyPair(certFile, key) can load the pair.  certReads counts
\* the calls of LoadX509KeyPair, errs the Error entries logged.
\* broker := protocol + "://" + addr.Address + ":" + strconv.Itoa(addr.Port) + addr.Path
BrokerURL_NoPath(protocol, addr) ==
    protocol \o <<":", "/", "/">> \o addr.Address \o <<":">> \o Itoa(addr.Port)
BrokerURL(protocol, addr) ==
    protocol \o <<":", "/", "/">> \o addr.Address \o <<":">> \o Itoa(addr.Port) \o addr.Path

\* broker is the string handed to opts.AddBroker, whatever happens afterwards.
NewMQTTSender(addr, certOk, config) ==
    LET protocol == ToLower(addr.Protocol)
        broker == BrokerURL(protocol, addr)
    IN IF IsTLS(protocol) /\ ~certOk
       THEN [sender |-> NilSender, broker |-> broker, certReads |-> 1, errs |-> <<"x509">>]
       ELSE [sender |-> [nil |-> FALSE, broker |-> broker, topic |-> addr.Topic,
                         opts |-> config, autoReconnect |-> config.autoreconnect,
                         tls |-> IsTLS(protocol), insecureSkipVerify |-> IsTLS(protocol)],
             broker |-> broker,
             certReads |-> IF IsTLS(protocol) THEN 1 ELSE 0,
             errs |-> <<>>]

Protocols ==
    {<<"t", "c", "p">>, <<"T", "C", "P">>, <<"t", "c", "p", "s">>, <<"T", "c", "p", "S">>,
     <<"s", "s", "l">>, <<"S", "S", "L">>, <<"t", "l", "s">>, <<"T", "l", "s">>, <<"w", "s">>}
Addresses == {<<"1", ".", "2", ".", "3", ".", "4">>, <<"h">>}
Ports == {1883, 80}
Paths == {<<>>, <<"/", "m">>}
Addressables ==
    [Protocol : Protocols, Address : Addresses, Port : Ports, Path : Paths, Topic : {"topic"}]

NoOut == [sender |-> NilSender, broker |-> <<>>, certReads |-> 0, errs |-> <<>>]
NoCtor ==
    [pc |-> "off", addr |-> [Protocol |-> <<>>, Address |-> <<>>, Port |-> 0, Path |-> <<>>,
                             Topic |-> "-"],
     certOk |-> FALSE, config |-> NewMqttConfig, asked |-> NoAsk, out |-> NoOut,
     pubs |-> <<>>]

Callers == {"a", "b"}
NoRet == [cont |-> FALSE, result |-> Nil]
IdleCall ==
    [pc |-> "idle", params |-> <<>>, prior |-> 0, saw |-> "-", connRes |-> "-", pubRes |-> "-",
     markRes |-> "-", ops |-> <<>>, errs |-> <<>>, ret |-> NoRet]

Init ==
    /\ ctor = NoCtor
    /\ send = [c \in Callers |-> IdleCall]
    /\ sends = 0
    /\ connectFails = 0
    /\ pipeline \in Pipelines
    /\ init = "new"
    /\ subscribed = FALSE
    /\ messages = <<>>
    /\ delivered = 0
    /\ pc = "off"
    /\ msgs = NoMsg
    /\ edgexContext = NoCtx
    /\ idx = 0
    /\ result = Nil
    /\ connected = FALSE
    /\ calls = <<>>
    /\ log = <<>>
    /\ busLogged = 0
    /\ served = <<>>
    /\ done = NoSummary

\* Trigger.Initialize: NewMessageClient may fail (return err); the result
\* of Subscribe is not looked at; the worker goroutine is started.
Initialize(clientOk, subOk) ==
    /\ init = "new"
    /\ IF ~clientOk
       THEN /\ init' = "failed"
            /\ UNCHANGED <<subscribed, pc>>
       ELSE /\ init' = "live"
            /\ subscribed' = subOk
            /\ pc' = "select"
    /\ UNCHANGED <<pipeline, messages, delivered, msgs, edgexContext,
                   idx, result, connected, calls, log, busLogged, served, done, senderVars, ctor>>

\* The bus has a new arrival for the subscribed topic.
Deliver(env) ==
    /\ init = "live"
    /\ subscribed
    /\ delivered < MaxArrivals
    /\ delivered' = delivered + 1
    /\ messages' = Append(messages, [seq |-> delivered + 1, env |-> env])
    /\ UNCHANGED <<pipeline, init, subscribed, pc, msgs, edgexContext,
                   idx, result, connected, calls, log, busLogged, served, done, senderVars, ctor>>

\* case msgErr := <-messageErrors: logger.Error(...).  The channel is
\* unbuffered: the bus hands over an error when the worker is in its select.
RecvError ==
    /\ pc = "select"
    /\ busLogged < MaxBusErrors
    /\ busLogged' = busLogged + 1
    /\ UNCHANGED <<pipeline, init, subscribed, messages, delivered, pc, msgs,
                   edgexContext, idx, result, connected, calls, log, served, done, senderVars, ctor>>

\* case msgs := <-trigger.topics[0].Messages: build the context, call ProcessEvent
RecvMessage ==
    /\ pc = "select"
    /\ messages # <<>>
    /\ LET m == NextMessage(messages) IN
         /\ msgs' = m
         /\ edgexContext' = NewContext(m)
         /\ served' = Append(served, m.seq)
    /\ messages' = Tail(messages)
    /\ pc' = "decode"
    /\ calls' = <<>>
    /\ log' = <<>>
    /\ UNCHANGED <<pipeline, init, subscribed, delivered, idx, result,
                   connected, busLogged, done, senderVars, ctor>>

\* ProcessEvent, decoding: a decode failure ends the run before any stage.
DecodeEvent ==
    /\ pc = "decode"
    /\ IF DecodeOk(msgs.env)
       THEN /\ result' = Decode(msgs.env)
            /\ idx' = 1
            /\ pc' = IF Len(pipeline) = 0 THEN "post" ELSE "stages"
            /\ UNCHANGED log
       ELSE /\ log' = Append(log, "decode")
            /\ pc' = "post"
            /\ UNCHANGED <<result, idx>>
    /\ UNCHANGED <<pipeline, init, subscribed, messages, delivered, msgs,
                   edgexContext, connected, calls, busLogged, served, done, senderVars, ctor>>

\* ProcessEvent, after stage idx returned outcome o (or panicked: nothing
\* recovers a panic in the worker goroutine, the process dies).
AfterStage(o) ==
    /\ calls' = Append(calls, [idx |-> idx, kind |-> pipeline[idx], params |-> <<result>>,
                               before |-> edgexContext, o |-> o])
    /\ edgexContext' = o.ctx
    /\ connected' = o.connected
    /\ IF o.panic
       THEN /\ pc' = "panicked"
            /\ UNCHANGED <<idx, result, log>>
       ELSE IF ContinuePipeline(o)
       THEN /\ result' = NextInput(o)
            /\ idx' = idx + 1
            /\ pc' = IF idx = Len(pipeline) THEN "post" ELSE "stages"
            /\ log' = log \o o.errs
       ELSE /\ pc' = "post"
            /\ log' = log \o o.errs \o (IF LogsStageError(o) THEN <<"stage">> ELSE <<>>)
            /\ UNCHANGED <<idx, result>>
    /\ UNCHANGED <<pipeline, init, subscribed, messages, delivered, msgs,
                   busLogged, served, done, senderVars, ctor>>

AtStage(kind) == pc = "stages" /\ idx \in 1..Len(pipeline) /\ pipeline[idx] = kind

InvokeUser(comp, doRewrite, ret) ==
    /\ AtStage("user")
    /\ AfterStage(UserStage(edgexContext, <<result>>, connected, comp, doRewrite, ret))

InvokeXML ==
    /\ AtStage("xml")
    /\ AfterStage(XMLTransform(edgexContext, <<result>>, connected))

InvokePrint ==
    /\ AtStage("print")
    /\ AfterStage(printXMLToConsole(edgexContext, <<result>>, connected))

InvokeMQTT(connOk, pubOk, markOk) ==
    /\ AtStage("mqtt")
    /\ AfterStage(MQTTSend(edgexContext, <<result>>, connected, connOk, pubOk, markOk))

\* What the worker records when it has finished with an arrival.
Summary(envs, pubErr) ==
    [seq |-> msgs.seq, corr |-> msgs.env.CorrelationID, decoded |-> DecodeOk(msgs.env),
     output |-> edgexContext.OutputData, envs |-> envs, pubErr |-> pubErr]

Finish(envs, pubErr) ==
    /\ done' = Summary(envs, pubErr)
    /\ pc' = "select"
    /\ msgs' = NoMsg
    /\ edgexContext' = NoCtx
    /\ idx' = 0
    /\ result' = Nil
    /\ calls' = <<>>
    /\ UNCHANGED <<pipeline, init, subscribed, messages, delivered,
                   connected, busLogged, served, senderVars, ctor>>

\* if err != nil { logger.Error("Failed to publish Message to bus") }
PublishLog_Silent(pubOk) == <<>>
PublishLog(pubOk) == IF pubOk THEN <<>> ELSE <<"publish">>

\* the output was set: publish once, log a failure, go back to the select
PublishOutput(pubOk) ==
    /\ pc = "post"
    /\ OutputIsSet(edgexContext)
    /\ log' = PublishLog(pubOk)
    /\ Finish(<<OutputEnvelope(edgexContext, msgs)>>, ~pubOk)

\* the output was not set: nothing to publish
SkipPublish ==
    /\ pc = "post"
    /\ ~OutputIsSet(edgexContext)
    /\ log' = <<>>
    /\ Finish(<<>>, FALSE)

Next ==
    \/ \E clientOk \in BOOLEAN, subOk \in BOOLEAN : Initialize(clientOk, subOk)
    \/ \E env \in Envelopes : Deliver(env)
    \/ RecvError
    \/ RecvMessage
    \/ DecodeEvent
    \/ \E comp \in UserCompletes, doRewrite \in BOOLEAN, ret \in UserReturns :
          InvokeUser(comp, doRewrite, ret)
    \/ InvokeXML
    \/ InvokePrint
    \/ \E connOk \in BOOLEAN, pubOk \in BOOLEAN, markOk \in BOOLEAN :
          InvokeMQTT(connOk, pubOk, markOk)
    \/ \E pubOk \in BOOLEAN : PublishOutput(pubOk)
    \/ SkipPublish

Spec == Init /\ [][Next]_vars

TypeOK ==
    /\ pc \in {"off", "select", "decode", "stages", "post", "panicked"}
    /\ init \in {"new", "failed", "live"}
    /\ delivered \in 0..MaxArrivals
    /\ Len(calls) <= Len(pipeline)

(* ------------------- MQTTSender.MQTTSend, step by step ---------------- *)
\* Direct calls of MQTTSend on one sender instance by the callers that
\* share it, one action per point where the call waits on the client.
SendParams == {<<>>, <<Str("evA")>>, <<Bytes("evA")>>, <<Event("evA")>>, <<Nil>>}

\* if len(params) < 1
NoData_Never(params) == FALSE
NoData(params) == Len(params) < 1

\* if data, ok := params[0].(string); ok
IsString(params) == Len(params) > 0 /\ params[1].t = "string"

\* if !sender.client.IsConnected()
NotConnected_Always(conn) == TRUE
NotConnected(conn) == ~conn

\* token.Wait() && token.Error() != nil, for the Connect token
ConnectFailed_Ignored(ok) == FALSE
ConnectFailed(ok) == ~ok

\* token.Error() != nil, for the Publish token
PublishFailed_Ignored(ok) == FALSE
PublishFailed(ok) == ~ok

\* err := edgexcontext.MarkAsPushed(); if err != nil { log }; return true, nil
ReturnAfterMark_FailOnError(markOk) ==
    IF markOk THEN [cont |-> TRUE, result |-> Nil]
    ELSE [cont |-> FALSE, result |-> Err("mark failed")]
ReturnAfterMark(markOk) == [cont |-> TRUE, result |-> Nil]

Returned(rec, cont, res) == [rec EXCEPT !.pc = "returned", !.ret = [cont |-> cont, result |-> res]]

\* from the type assertion on: issue the Publish or reject the input
TypeCheck(rec) ==
    IF IsString(rec.params)
    THEN [rec EXCEPT !.pc = "publishing", !.ops = Append(@, "publish")]
    ELSE Returned(rec, FALSE, Err("Unexpected type received"))

SendInit ==
    /\ ctor = NoCtor
    /\ send = [c \in Callers |-> IdleCall]
    /\ sends = 0
    /\ connectFails = 0
    /\ connected = FALSE
    /\ pipeline = <<>>
    /\ init = "new"
    /\ subscribed = FALSE
    /\ messages = <<>>
    /\ delivered = 0
    /\ pc = "off"
    /\ msgs = NoMsg
    /\ edgexContext = NoCtx
    /\ idx = 0
    /\ result = Nil
    /\ calls = <<>>
    /\ log = <<>>
    /\ busLogged = 0
    /\ served = <<>>
    /\ done = NoSummary

\* a caller invokes sender.MQTTSend(ctx, params...)
SendCall(c, params) ==
    /\ send[c].pc \in {"idle", "returned"}
    /\ sends < MaxSends
    /\ sends' = sends + 1
    /\ send' = [send EXCEPT ![c] = [IdleCall EXCEPT !.pc = "called", !.params = params,
                                                     !.prior = connectFails]]
    /\ UNCHANGED <<connectFails, connected, triggerVars, ctor>>

\* the length check, the IsConnected check and what follows without waiting
Begun(call, conn) ==
    IF NoData(call.params)
    THEN Returned(call, FALSE, Err("No Data Received"))
    ELSE LET rec == [call EXCEPT !.saw = IF conn THEN "yes" ELSE "no"] IN
         IF NotConnected(conn)
         THEN [rec EXCEPT !.pc = "connecting", !.ops = Append(@, "connect")]
         ELSE TypeCheck(rec)

\* MQTTSend takes no lock: a call starts whatever the other caller is doing
SendBegin_Locked(c) ==
    /\ send[c].pc = "called"
    /\ \A o \in Callers \ {c} : send[o].pc \notin {"connecting", "publishing"}
    /\ send' = [send EXCEPT ![c] = Begun(@, connected)]
    /\ UNCHANGED <<sends, connectFails, connected, triggerVars, ctor>>
SendBegin(c) ==
    /\ send[c].pc = "called"
    /\ send' = [send EXCEPT ![c] = Begun(@, connected)]
    /\ UNCHANGED <<sends, connectFails, connected, triggerVars, ctor>>

\* the Connect token resolves
SendConnectDone(c, ok) ==
    /\ send[c].pc = "connecting"
    /\ LET rec == [send[c] EXCEPT !.connRes = IF ok THEN "ok" ELSE "fail"] IN
         IF ConnectFailed(ok)
         THEN /\ send' = [send EXCEPT ![c] =
                     Returned(rec, FALSE, Err("Could not connect to mqtt server"))]
              /\ connectFails' = connectFails + 1
              /\ UNCHANGED connected
         ELSE /\ send' = [send EXCEPT ![c] = TypeCheck(rec)]
              /\ connected' = (connected \/ ok)
              /\ UNCHANGED connectFails
    /\ UNCHANGED <<sends, triggerVars, ctor>>

\* the Publish token resolves; on success MarkAsPushed is called
SendPublishDone(c, pubOk, markOk) ==
    /\ send[c].pc = "publishing"
    /\ LET rec == [send[c] EXCEPT !.pubRes = IF pubOk THEN "ok" ELSE "fail"] IN
         send' = [send EXCEPT ![c] =
             IF PublishFailed(pubOk)
             THEN Returned(rec, FALSE, Err("publish failed"))
             ELSE LET r == ReturnAfterMark(markOk) IN
                  Returned([rec EXCEPT !.markRes = IF markOk THEN "ok" ELSE "fail",
                                       !.ops = Append(@, "mark"),
                                       !.errs = IF markOk THEN <<>> ELSE <<"mark">>],
                           r.cont, r.result)]
    /\ UNCHANGED <<sends, connectFails, connected, triggerVars, ctor>>

\* the broker connection drops: IsConnected() turns false
ConnectionLost ==
    /\ connected
    /\ connected' = FALSE
    /\ UNCHANGED <<senderVars, triggerVars, ctor>>

SendNext ==
    \/ \E c \in Callers, params \in SendParams : SendCall(c, params)
    \/ \E c \in Callers : SendBegin(c)
    \/ \E c \in Callers, ok \in BOOLEAN : SendConnectDone(c, ok)
    \/ \E c \in Callers, pubOk \in BOOLEAN, markOk \in BOOLEAN : SendPublishDone(c, pubOk, markOk)
    \/ ConnectionLost

SendSpec == SendInit /\ [][SendNext]_vars

Count(q, x) == Cardinality({i \in 1..Len(q) : q[i] = x})

\* A finished step-by-step call returned what MQTTSend, taken as one step
\* with the same observations and answers, returns.
SendAgreesWithMQTTSend ==
    \A c \in Callers :
        send[c].pc = "returned" =>
            LET rec == send[c]
                o == MQTTSend(NoCtx, rec.params, rec.saw = "yes", rec.connRes = "ok",
                              rec.pubRes = "ok", rec.markRes = "ok")
            IN /\ rec.ret = [cont |-> o.cont, result |-> o.result]
               /\ Count(rec.ops, "connect") = o.connects
               /\ Count(rec.ops, "publish") = o.publishes
               /\ Count(rec.ops, "mark") = o.marks
               /\ rec.errs = o.errs

(* ---------------------- NewMQTTSender, as called ---------------------- *)
NewInit ==
    /\ ctor \in [pc : {"new"}, addr : Addressables, certOk : BOOLEAN,
                 config : {NewMqttConfig}, asked : {NoAsk}, out : {NoOut},
                 pubs : {<<>>}]
    /\ send = [c \in Callers |-> IdleCall]
    /\ sends = 0
    /\ connectFails = 0
    /\ connected = FALSE
    /\ pipeline = <<>>
    /\ init = "new"
    /\ subscribed = FALSE
    /\ messages = <<>>
    /\ delivered = 0
    /\ pc = "off"
    /\ msgs = NoMsg
    /\ edgexContext = NoCtx
    /\ idx = 0
    /\ result = Nil
    /\ calls = <<>>
    /\ log = <<>>
    /\ busLogged = 0
    /\ served = <<>>
    /\ done = NoSummary

\* sender := NewMQTTSender(logging, addr, certFile, key, config)
Construct ==
    /\ ctor.pc = "new"
    /\ ctor' = [ctor EXCEPT !.pc = "built",
                            !.out = NewMQTTSender(ctor.addr, ctor.certOk, ctor.config)]
    /\ UNCHANGED <<connected, senderVars, triggerVars>>

\* config.SetQos(qos), before the sender is constructed
CallSetQos(qos) ==
    /\ ctor.pc = "new"
    /\ ctor' = [ctor EXCEPT !.config = SetQos(ctor.config, qos),
                            !.asked.qos = qos,
                            !.asked.called = @ \cup {"SetQos"}]
    /\ UNCHANGED <<connected, senderVars, triggerVars>>

\* config.SetRetain(retain)
CallSetRetain(retain) ==
    /\ ctor.pc = "new"
    /\ ctor' = [ctor EXCEPT !.config = SetRetain(ctor.config, retain),
                            !.asked.retain = retain,
                            !.asked.called = @ \cup {"SetRetain"}]
    /\ UNCHANGED <<connected, senderVars, triggerVars>>

\* config.SetAutoreconnect(reconnect)
CallSetAutoreconnect(reconnect) ==
    /\ ctor.pc = "new"
    /\ ctor' = [ctor EXCEPT !.config = SetAutoreconnect(ctor.config, reconnect),
                            !.asked.autoreconnect = reconnect,
                            !.asked.called = @ \cup {"SetAutoreconnect"}]
    /\ UNCHANGED <<connected, senderVars, triggerVars>>

\* sender.client.Publish(sender.topic, sender.opts.qos, sender.opts.retain, data)
\* as MQTTSend issues it with the constructed sender
PublishWith ==
    /\ ctor.pc = "built"
    /\ ctor.out.sender # NilSender
    /\ Len(ctor.pubs) < MaxPublishes
    /\ ctor' = [ctor EXCEPT !.pubs = Append(@, [topic |-> ctor.out.sender.topic,
                                                 qos |-> ctor.out.sender.opts.qos,
                                                 retain |-> ctor.out.sender.opts.retain])]
    /\ UNCHANGED <<connected, senderVars, triggerVars>>

NewNext ==
    \/ \E qos \in QosLevels : CallSetQos(qos)
    \/ \E retain \in BOOLEAN : CallSetRetain(retain)
    \/ \E reconnect \in BOOLEAN : CallSetAutoreconnect(reconnect)
    \/ Construct
    \/ PublishWith

NewSpec == NewInit /\ [][NewNext]_vars

(* ============================== claims ================================ *)
InRun == pc \in {"stages", "post", "panicked"}
Last(q) == q[Len(q)]
Stopped(c) == ~c.o.panic /\ ~c.o.cont

\* Payloads passed to Complete so far in the current run, in call order.
RECURSIVE CompletesOf(_)
CompletesOf(q) == IF q = <<>> THEN <<>> ELSE CompletesOf(SubSeq(q, 1, Len(q) - 1)) \o Last(q).o.completes
LastCompleted == IF CompletesOf(calls) = <<>> THEN Nil ELSE Last(CompletesOf(calls))

\* C1: in every run the stages invoked are stages 1, 2, ... in order, and
\* every invoked stage but the last one returned continue = true: stage
\* i+1 is invoked only after stage i returned true, and nothing is invoked
\* after a stage that returned false.
C1_ContinueGatesNextStage ==
    \A k \in 1..Len(calls) :
        /\ calls[k].idx = k
        /\ k < Len(calls) => (calls[k].o.cont /\ ~calls[k].o.panic)

\* a run ended by a stage returning false while a later stage was configured
C1_Witness ==
    /\ pc = "post"
    /\ Len(calls) = 1
    /\ Len(pipeline) = 2
    /\ Stopped(calls[1])

\* C2: the first stage invoked receives the Event decoded from the arrival
\* that triggered the run; every later stage receives exactly the value the
\* stage before it returned.
C2_StageInputs ==
    \A k \in 1..Len(calls) :
        calls[k].params = <<IF k = 1 THEN Event(msgs.env.Payload) ELSE calls[k-1].o.result>>

\* a second stage was invoked with the string the first stage made of the event
C2_Witness ==
    /\ Len(calls) = 2
    /\ calls[1].params = <<Event("evA")>>
    /\ calls[1].o.result = Str("evA")
    /\ calls[2].params = <<Str("evA")>>

RuntimeErrors == SelectSeq(log, LAMBDA e : e = "stage")
RunEndedBy(t) ==
    /\ pc = "post"
    /\ calls # <<>>
    /\ Stopped(Last(calls))
    /\ Last(calls).o.result.t = t

\* C3 as stated: a run in which a stage returned (false, nil) ends with no
\* error logged and the output slot unset, also when a stage called
\* Complete.
C3_AsStated == RunEndedBy("nil") => (log = <<>> /\ edgexContext.OutputData = Nil)

\* C3 amended: a run in which a stage returned (false, nil) ends with no
\* error logged by the runtime; its output slot is unset when no stage of
\* the run called Complete, and otherwise holds the payload of the last
\* Complete call.
C3_FilterStopKeepsCompleted ==
    RunEndedBy("nil") => (RuntimeErrors = <<>> /\ edgexContext.OutputData = LastCompleted)

\* printXMLToConsole called Complete and returned (false, nil)
C3_Witness ==
    /\ RunEndedBy("nil")
    /\ Last(calls).kind = "print"
    /\ edgexContext.OutputData = Bytes("evA")

Marks == Cardinality({k \in 1..Len(calls) : calls[k].o.marks > 0})

\* C5: an arrival that cannot be decoded runs no stage, leaves the output
\* slot unset, marks nothing as pushed, and nothing is published for it.
C5_DecodeFailureAborts ==
    /\ (pc = "post" /\ ~DecodeOk(msgs.env)) =>
          (calls = <<>> /\ Marks = 0 /\ edgexContext.OutputData = Nil)
    /\ (done.seq > 0 /\ ~done.decoded) => (done.output = Nil /\ done.envs = <<>>)

\* an undecodable arrival was serviced to the end, with a non-empty pipeline
C5_Witness ==
    /\ pipeline # <<>>
    /\ done.seq > 0
    /\ ~done.decoded

\* C6: during a run the output slot holds the payload of the last Complete
\* call of that run (unset when there was none), and a stage that only
\* calls Complete (printXMLToConsole) leaves the context otherwise as it
\* was, marks nothing as pushed and leaves the client alone; a run is not
\* ended by a Complete call: when the last stage invoked called Complete
\* and returned continue = true, it was the last stage of the pipeline.
C6_CompleteLastWins ==
    /\ InRun => edgexContext.OutputData = LastCompleted
    /\ (pc = "post" /\ calls # <<>> /\ Last(calls).o.completes # <<>> /\ Last(calls).o.cont)
          => Len(calls) = Len(pipeline)
    /\ \A k \in 1..Len(calls) :
          (calls[k].kind = "print" /\ calls[k].o.completes # <<>>) =>
              /\ calls[k].o.ctx = [calls[k].before EXCEPT !.OutputData = Last(calls[k].o.completes)]
              /\ calls[k].o.marks = 0
              /\ calls[k].o.connects = 0

\* two stages of one run called Complete with different payloads
C6_Witness ==
    /\ Len(calls) = 2
    /\ calls[1].o.completes = <<Bytes("u1")>>
    /\ calls[2].o.completes = <<Bytes("u2")>>
    /\ edgexContext.OutputData = Bytes("u2")

\* C7: for every arrival the worker finished servicing, one publish was
\* attempted when the output slot was set at the end of the run, with the
\* slot's value as payload, and none when the slot was unset.
C7_PublishIffOutputSet ==
    done.seq > 0 =>
        IF done.output # Nil
        THEN Len(done.envs) = 1 /\ done.envs[1].Payload = done.output
        ELSE done.envs = <<>>

\* an arrival ended with the output printXMLToConsole completed, and it was published
C7_Witness ==
    /\ done.seq = 2
    /\ done.output = Bytes("evA")
    /\ Len(done.envs) = 1

\* C8 as stated: every published envelope carries the correlation id of
\* the arrival whose run produced the output, for any stage sequence.
C8_AsStated ==
    \A j \in 1..Len(done.envs) : done.envs[j].CorrelationID = done.corr

\* C9: arrivals are dequeued in the order delivered; at most one dequeued
\* arrival is unfinished at any time, and none while the worker waits in
\* its select or before it runs; arrivals finish in delivery order.
C9_OneRunInOrder ==
    /\ \A k \in 1..Len(served) : served[k] = k
    /\ Len(served) - done.seq \in {0, 1}
    /\ pc \in {"off", "select"} => Len(served) = done.seq
    /\ Len(served) > done.seq => msgs.seq = Len(served)

\* a second arrival waited while the first run was in progress, then ran
C9_Witness ==
    /\ served = <<1, 2>>
    /\ done.seq = 1
    /\ pc = "stages"

\* C10 as stated (safety part): once the trigger is live its worker is
\* servicing its queues or an arrival, whatever failed before.
C10_AsStated == init = "live" => pc \in {"select", "decode", "stages", "post"}

\* C11: when the publish of an arrival's output failed, the failure is in
\* the log, one publish was attempted for that arrival, the arrival is not
\* back in the queue and is not dequeued a second time, and the worker is
\* back in its select or already servicing a later arrival.
WorkerAlive == {"select", "decode", "stages", "post"}
C11_PublishFailureDropped ==
    done.pubErr =>
        /\ Len(done.envs) = 1
        /\ pc = "select" => log = <<"publish">>
        /\ \A k \in 1..Len(messages) : messages[k].seq > done.seq
        /\ Cardinality({k \in 1..Len(served) : served[k] = done.seq}) = 1
        /\ msgs.seq # done.seq
        /\ pc = "select" \/ msgs.seq > done.seq

\* the first arrival's publish failed and the worker is servicing the second
C11_Witness ==
    /\ done.pubErr
    /\ done.seq = 1
    /\ msgs.seq = 2
    /\ pc = "stages"

\* C12 as stated: an error taken from the error queue is only logged (no
\* run started, nothing published, the worker stays in its select), and
\* once started the worker loop never ends, whatever it receives.
C12_AsStated ==
    [][/\ busLogged' # busLogged =>
            (pc' = "select" /\ calls' = calls /\ served' = served /\ done' = done)
       /\ pc \in WorkerAlive => pc' \in WorkerAlive]_vars

\* C13 as stated: Initialize returns nil only when the subscription was
\* established (and an error when the client could not be created).
C13_AsStated == init = "live" => subscribed

\* C19 as stated: when MQTTSend is the first stage, the triggering event
\* is the data: with the client connected it is published, and on a
\* successful publish the event is marked as pushed.
C19_AsStated ==
    (calls # <<>> /\ calls[1].kind = "mqtt" /\ calls[1].o.connected) =>
        /\ calls[1].o.publishes = 1
        /\ calls[1].o.cont => calls[1].o.marks = 1

Has(q, x) == \E i \in 1..Len(q) : q[i] = x

\* C14: a Send call that found the client not connected makes its connect
\* attempt first and publishes only after that attempt succeeded; when the
\* connect failed the call has returned continue = false with the connect
\* error, has attempted no publish and has marked nothing.
C14_ConnectBeforePublish ==
    \A c \in Callers :
        send[c].saw = "no" =>
            /\ send[c].ops # <<>> /\ send[c].ops[1] = "connect"
            /\ Has(send[c].ops, "publish") => send[c].connRes = "ok"
            /\ send[c].connRes = "fail" =>
                  /\ send[c].pc = "returned"
                  /\ send[c].ret = [cont |-> FALSE, result |-> Err("Could not connect to mqtt server")]
                  /\ send[c].ops = <<"connect">>

\* a call found the client not connected and its connect attempt failed
C14_Witness ==
    \E c \in Callers :
        /\ send[c].pc = "returned"
        /\ send[c].params = <<Str("evA")>>
        /\ send[c].saw = "no"
        /\ send[c].connRes = "fail"

\* C15: a finished Send call has invoked MarkAsPushed exactly once when
\* its publish succeeded, and not at all when the publish failed or was
\* never attempted.
C15_MarkIffPublished ==
    \A c \in Callers :
        send[c].pc = "returned" =>
            Count(send[c].ops, "mark") = IF send[c].pubRes = "ok" THEN 1 ELSE 0

\* a call whose publish failed has returned
C15_Witness ==
    \E c \in Callers :
        /\ send[c].pc = "returned"
        /\ send[c].pubRes = "fail"
        /\ send[c].ops = <<"connect", "publish">>

\* C16: a Send call whose publish succeeded returns (true, nil) whether
\* MarkAsPushed succeeded or failed; a failed mark is only logged.
C16_MarkFailureOnlyLogged ==
    \A c \in Callers :
        (send[c].pc = "returned" /\ send[c].pubRes = "ok") =>
            /\ send[c].ret = [cont |-> TRUE, result |-> Nil]
            /\ send[c].errs = IF send[c].markRes = "fail" THEN <<"mark">> ELSE <<>>

\* a call published, failed to mark, and returned
C16_Witness ==
    \E c \in Callers :
        /\ send[c].pc = "returned"
        /\ send[c].pubRes = "ok"
        /\ send[c].markRes = "fail"

\* C17: a Send call with zero input values returns (false, "No Data
\* Received") and makes no connect attempt, no publish attempt and no
\* retention mark, whether the client is connected or not.
C17_NoDataNoAttempt ==
    \A c \in Callers :
        (send[c].params = <<>> /\ send[c].pc \notin {"idle", "called"}) =>
            /\ send[c].pc = "returned"
            /\ send[c].ret = [cont |-> FALSE, result |-> Err("No Data Received")]
            /\ send[c].ops = <<>>
            /\ send[c].saw = "-"

\* a call with no input returned while the client was not connected
C17_Witness ==
    \E c \in Callers :
        /\ send[c].pc = "returned"
        /\ send[c].params = <<>>
        /\ ~connected

\* C18 as stated: with a usable connection, Send rejects its input with
\* "unexpected type" exactly when it is neither a string nor a byte
\* payload; a string and a byte payload are both published.
C18_AsStated ==
    \A c \in Callers :
        (send[c].pc = "returned" /\ send[c].params # <<>> /\ send[c].connRes # "fail") =>
            /\ (send[c].ret.result = Err("Unexpected type received"))
                  <=> (send[c].params[1].t \notin {"string", "bytes"})
            /\ send[c].params[1].t \in {"string", "bytes"} => Has(send[c].ops, "publish")

\* the same letter, in either case
SameLetter(x, y) == x = y \/ \E k \in 1..Len(Upper) : {x, y} = {Upper[k], Lower[k]}
EqualFold(a, b) == Len(a) = Len(b) /\ \A i \in 1..Len(a) : SameLetter(a[i], b[i])
NamesTLS(protocol) ==
    \E t \in {<<"t", "c", "p", "s">>, <<"s", "s", "l">>, <<"t", "l", "s">>} : EqualFold(protocol, t)

\* C20: NewMQTTSender returns nil when the protocol is tcps, ssl or tls in
\* any letter case and the certificate/key pair cannot be loaded; for every
\* other protocol the pair is not read and a sender is returned.
C20_NilOnlyOnTLSCertFailure ==
    ctor.pc = "built" =>
        /\ (NamesTLS(ctor.addr.Protocol) /\ ~ctor.certOk) => ctor.out.sender = NilSender
        /\ ~NamesTLS(ctor.addr.Protocol) =>
              (ctor.out.certReads = 0 /\ ctor.out.sender # NilSender)

\* built with protocol "TcpS" and an unloadable pair: no sender
C20_Witness ==
    /\ ctor.pc = "built"
    /\ ctor.addr.Protocol = <<"T", "c", "p", "S">>
    /\ ~ctor.certOk
    /\ ctor.out.sender = NilSender

\* the number a string of decimal digits writes; -1 when it is not one
RECURSIVE DecimalValue(_)
DecimalValue(str) ==
    IF str = <<>> THEN 0
    ELSE LET last == str[Len(str)]
             rest == DecimalValue(SubSeq(str, 1, Len(str) - 1))
         IN IF rest < 0 \/ ~\E d \in 1..Len(Digits) : Digits[d] = last
            THEN -1
            ELSE 10 * rest + (CHOOSE d \in 1..Len(Digits) : Digits[d] = last) - 1

\* str writes n in decimal: digits only, no leading zero, value n
IsDecimalOf(str, n) ==
    /\ Len(str) >= 1
    /\ (Len(str) > 1 => str[1] # "0")
    /\ DecimalValue(str) = n

IsLowerOf(str, orig) ==
    /\ Len(str) = Len(orig)
    /\ \A i \in 1..Len(str) :
          /\ SameLetter(str[i], orig[i])
          /\ ~\E k \in 1..Len(Upper) : Upper[k] = str[i]

\* url is <lowercase(protocol)>://<address>:<port><path>
IsEndpointOf(url, addr) ==
    LET p == Len(addr.Protocol)
        a == Len(addr.Address)
        h == Len(addr.Path)
        n == Len(url) - (p + 3 + a + 1 + h)
    IN /\ n >= 1
       /\ IsLowerOf(SubSeq(url, 1, p), addr.Protocol)
       /\ SubSeq(url, p + 1, p + 3) = <<":", "/", "/">>
       /\ SubSeq(url, p + 4, p + 3 + a) = addr.Address
       /\ url[p + 3 + a + 1] = ":"
       /\ IsDecimalOf(SubSeq(url, p + 3 + a + 2, p + 3 + a + 1 + n), addr.Port)
       /\ SubSeq(url, Len(url) - h + 1, Len(url)) = addr.Path

ExampleAddr ==
    [Protocol |-> <<"t", "c", "p">>, Address |-> <<"1", ".", "2", ".", "3", ".", "4">>,
     Port |-> 1883, Path |-> <<>>, Topic |-> "topic"]
ExampleURL ==
    <<"t", "c", "p", ":", "/", "/", "1", ".", "2", ".", "3", ".", "4", ":", "1", "8", "8", "3">>

\* C21: the broker endpoint NewMQTTSender builds is lowercase(protocol), "://",
\* the address, ":", the decimal port and the path unchanged, for every
\* address record; tcp, 1.2.3.4, 1883 and an empty path give
\* "tcp://1.2.3.4:1883".
C21_EndpointDerivation ==
    ctor.pc = "built" =>
        /\ IsEndpointOf(ctor.out.broker, ctor.addr)
        /\ (ctor.addr = ExampleAddr => ctor.out.broker = ExampleURL)
        /\ (ctor.out.sender # NilSender => ctor.out.sender.broker = ctor.out.broker)

\* a sender built for an upper-case protocol and a non-empty path
C21_Witness ==
    /\ ctor.pc = "built"
    /\ ctor.addr.Protocol = <<"S", "S", "L">>
    /\ ctor.addr.Path = <<"/", "m">>
    /\ ctor.addr.Port = 80
    /\ ctor.out.sender # NilSender
    /\ ctor.out.broker = <<"s", "s", "l", ":", "/", "/", "h", ":", "8", "0", "/", "m">>

\* C22: after SetQos(q), SetRetain(r) and SetAutoreconnect(a) on a config
\* from NewMqttConfig the config holds q, r and a, and a sender built from it
\* publishes every message with q and r and has auto-reconnect a.
C22_AsStated ==
    ctor.asked.called = Setters =>
        /\ ctor.config.qos = ctor.asked.qos
        /\ ctor.config.retain = ctor.asked.retain
        /\ ctor.config.autoreconnect = ctor.asked.autoreconnect
        /\ (ctor.pc = "built" /\ ctor.out.sender # NilSender) =>
              /\ ctor.out.sender.autoReconnect = ctor.asked.autoreconnect
              /\ \A i \in 1..Len(ctor.pubs) :
                    /\ ctor.pubs[i].qos = ctor.asked.qos
                    /\ ctor.pubs[i].retain = ctor.asked.retain

\* What the code does instead: whatever the setters were asked for, the
\* config keeps NewMqttConfig's defaults and every publish uses them.
SettersChangeNothing ==
    /\ ctor.config = NewMqttConfig
    /\ \A i \in 1..Len(ctor.pubs) : ctor.pubs[i].qos = 0 /\ ctor.pubs[i].retain = FALSE

\* C23: in a sequence of Send calls on one sender with non-empty input, a
\* call makes exactly one connect attempt when the client reports
\* not-connected at its start, however many earlier calls failed to connect,
\* and none when it reports connected; an earlier failure neither suppresses
\* nor delays the next call's attempt.
C23_ConnectRetriedFromScratch ==
    \A c \in Callers :
        (send[c].params # <<>> /\ send[c].saw # "-") =>
            /\ send[c].saw = "no" => Count(send[c].ops, "connect") = 1
            /\ send[c].saw = "yes" => Count(send[c].ops, "connect") = 0
            /\ (send[c].saw = "no" /\ send[c].pc # "connecting") => send[c].connRes # "-"

\* the third of three calls one after the other, the first two having
\* failed to connect: it attempts the connect again and gets through
C23_Witness ==
    /\ send["a"].pc = "returned"
    /\ send["b"] = IdleCall
    /\ send["a"].prior = 2
    /\ send["a"].saw = "no"
    /\ Count(send["a"].ops, "connect") = 1
    /\ send["a"].connRes = "ok"

\* C24: nothing guards the connect-check-then-publish sequence of Send: a
\* call in the middle of it never keeps another call on the same sender from
\* making its own connected check, so two concurrent calls on a
\* not-connected client can both see not-connected and both connect.
C24_NoLockAroundConnect ==
    \A c \in Callers : \A o \in Callers \ {c} :
        (send[c].pc \in {"connecting", "publishing"} /\ send[o].pc = "called") =>
            ENABLED SendBegin(o)

\* both callers saw not-connected and both have a connect attempt
\* outstanding at the same time
C24_Witness ==
    /\ ~connected
    /\ \A c \in Callers :
          /\ send[c].pc = "connecting"
          /\ send[c].saw = "no"
          /\ Count(send[c].ops, "connect") = 1

\* C25: the bus trigger builds a context with an unset output slot for every
\* arrival and does not reuse it: what is published for an arrival was set
\* by a Complete call of that arrival's own run, and a run that sets no
\* output publishes nothing, whatever an earlier arrival had published.
C25_FreshContextPerArrival ==
    /\ pc = "decode" => (edgexContext.OutputData = Nil /\ calls = <<>>)
    /\ (pc = "post" /\ OutputIsSet(edgexContext)) =>
          Has(CompletesOf(calls), OutputEnvelope(edgexContext, msgs).Payload)
    /\ (pc = "post" /\ CompletesOf(calls) = <<>>) => ~OutputIsSet(edgexContext)
    /\ pc \in {"off", "select"} => edgexContext = NoCtx

\* the first arrival's output was published; the second arrival's run has
\* ended without a Complete call and its slot is unset
C25_Witness ==
    /\ pc = "post"
    /\ served = <<1, 2>>
    /\ done.seq = 1
    /\ done.output # Nil
    /\ Len(done.envs) = 1
    /\ calls # <<>>
    /\ CompletesOf(calls) = <<>>
    /\ edgexContext.OutputData = Nil

====
